---- MODULE Spec2Model ----
(***************************************************************************)
(* Model of 23010599.py: the salary-distribution script.                   *)
(*                                                                         *)
(*   main: read_data -> calculate_distribution (calculate_bin_size, then   *)
(*         np.histogram and the derived arrays) -> statistics ->           *)
(*         plot_distribution (savefig, then show)                          *)
(*                                                                         *)
(* Real numbers are exact rationals [num, den] with den > 0.  The inputs   *)
(* are integers, so every value the script derives is rational except      *)
(* n ** (1/3), which only occurs inside int(2 * iqr / n ** (1/3)); that    *)
(* truncation is computed exactly by comparing cubes.  Floating-point      *)
(* rounding error is not modelled: sums, quotients and comparisons are     *)
(* those of the reals, and round() is round-half-to-even of the exact      *)
(* value.                                                                  *)
(***************************************************************************)
EXTENDS Integers, Sequences, FiniteSets, TLC

\* ---------------------------------------------------------------- bounds
MaxLen == 4        \* longest input file, in tokens
MaxVal == 5        \* largest sample value
NegVals == 1       \* how many negative sample values are tried

Values == (0 - NegVals)..MaxVal

\* ------------------------------------------------------- rational helpers
Rat(n, d) == [num |-> n, den |-> d]
RLe(a, b) == a.num * b.den <= b.num * a.den
RLt(a, b) == a.num * b.den < b.num * a.den
REq(a, b) == a.num * b.den = b.num * a.den
RSub(a, b) == Rat(a.num * b.den - b.num * a.den, a.den * b.den)

RECURSIVE SumSeq(_)
SumSeq(s) == IF s = <<>> THEN 0 ELSE Head(s) + SumSeq(Tail(s))

\* numpy's round: to the nearest integer, ties to the even one.
\* RoundHalfEven(n, d) is round(n / d) for d > 0.
RoundHalfEven(n, d) ==
    LET q == n \div d
        r == n % d
    IN  IF 2 * r < d THEN q
        ELSE IF 2 * r > d THEN q + 1
        ELSE IF q % 2 = 0 THEN q ELSE q + 1

\* ------------------------------------------------------------- read_data
\* A token of the file: a numeric literal or any other text.
NumTok(v) == [kind |-> "num", val |-> v]
TextTok == [kind |-> "text", val |-> 0]
Tokens == {NumTok(v) : v \in Values} \cup {TextTok}

\* genfromtxt's converter for dtype float: text that is not a number
\* becomes nan, it is not an error.
ToFloat(tok) ==
    IF tok.kind = "num" THEN [nan |-> FALSE, val |-> tok.val]
    ELSE [nan |-> TRUE, val |-> 0]

\* np.genfromtxt(file_path, delimiter=','): OSError when the file is
\* missing; otherwise the converted tokens, squeezed (one token gives a
\* 0-d array).
GenFromTxt(f) ==
    IF ~f.exists THEN [err |-> "OSError", ndim |-> 0, vals |-> <<>>]
    ELSE [err |-> "none",
          ndim |-> IF Len(f.tokens) = 1 THEN 0 ELSE 1,
          vals |-> [i \in 1..Len(f.tokens) |-> ToFloat(f.tokens[i])]]

HasNaN(vals) == \E i \in 1..Len(vals) : vals[i].nan
Floats(vals) == [i \in 1..Len(vals) |-> vals[i].val]

\* ---------------------------------------------------- calculate_bin_size
Sorted(s) == SortSeq(s, LAMBDA a, b : a < b)
Min(s) == CHOOSE x \in {s[i] : i \in 1..Len(s)} : \A i \in 1..Len(s) : x <= s[i]
Max(s) == CHOOSE x \in {s[i] : i \in 1..Len(s)} : \A i \in 1..Len(s) : x >= s[i]

\* 4 * np.percentile(s, q) for q in {25, 75}: linear interpolation at the
\* virtual index q / 100 * (n - 1) of the sorted data.
Percentile4(s, q) ==
    LET srt == Sorted(s)
        n == Len(s)
        pos4 == (q \div 25) * (n - 1)
        lo == pos4 \div 4
        frac4 == pos4 % 4
        a == srt[lo + 1]
        b == IF lo + 2 <= n THEN srt[lo + 2] ELSE a
    IN  4 * a + frac4 * (b - a)

\* 4 * iqr (line 46)
Iqr4(s) == Percentile4(s, 75) - Percentile4(s, 25)

\* int(2 * iqr / len ** (1/3)) (line 49): the largest w with
\* w * n^(1/3) <= 2 * iqr, that is 8 * w^3 * n <= (4 * iqr)^3.
BinWidth(s) ==
    LET i4 == Iqr4(s)
        n == Len(s)
    IN  CHOOSE w \in 0..i4 :
            /\ 8 * w * w * w * n <= i4 * i4 * i4
            /\ 8 * (w + 1) * (w + 1) * (w + 1) * n > i4 * i4 * i4

\* ceil(r / w) for w > 0
Ceil(r, w) == (r + w - 1) \div w

\* Stand-ins for the extremes of int64 (the model checker's integers are 32
\* bits wide); only their sign and their being far beyond any array size
\* are used.
IntMin == -2147483647
IntMax == 2147483647

\* np.ceil(r / 0).astype(int) (line 52): r / 0 is nan (r = 0) or inf
\* (r > 0) with a warning, and the cast of a non-finite float to int64 is
\* undefined: x86-64 gives the minimum for both, aarch64 gives 0 for nan
\* and the maximum for inf.
CastNonFinite(r) == IF r = 0 THEN {IntMin, 0} ELSE {IntMin, IntMax}

\* The outcomes of calculate_bin_size(df): the exception raised, if any, or
\* the bin count returned (and printed).
CalculateBinSize(df) ==
    IF df.ndim = 0
    THEN {[err |-> "TypeError", binw |-> 0, bins |-> 0]}     \* len() of 0-d
    ELSE IF HasNaN(df.vals)
    THEN {[err |-> "ValueError", binw |-> 0, bins |-> 0]}    \* int(nan)
    ELSE LET s == Floats(df.vals)
             w == BinWidth(s)
             r == Max(s) - Min(s)
         IN  IF w = 0
             THEN {[err |-> "none", binw |-> 0, bins |-> b] : b \in CastNonFinite(r)}
             ELSE {[err |-> "none", binw |-> w, bins |-> Ceil(r, w)]}

\* ------------------------------------------------ calculate_distribution
\* Twice the (first, last) edge of np.histogram's range: the data's
\* min and max, widened by 0.5 on each side when they coincide.
Range2(s) ==
    IF Min(s) = Max(s) THEN <<2 * Min(s) - 1, 2 * Max(s) + 1>>
    ELSE <<2 * Min(s), 2 * Max(s)>>

LinspaceHalfOpen(first2, last2, n) ==
    [i \in 1..n |-> Rat(n * first2 + (i - 1) * (last2 - first2), 2 * n)]

\* np.linspace(first, last, n + 1): the n + 1 bin edges.
Linspace(first2, last2, n) ==
    [i \in 1..(n + 1) |-> Rat(n * first2 + (i - 1) * (last2 - first2), 2 * n)]

BinIndexNoClamp(x, first2, last2, n) ==
    (((2 * x - first2) * n) \div (last2 - first2)) + 1

\* The (1-based) bin of sample x: floor((x - first) / (last - first) * n),
\* with the samples on the last edge put in the last bin.
BinIndex(x, first2, last2, n) ==
    LET f == ((2 * x - first2) * n) \div (last2 - first2)
    IN  IF f = n THEN n ELSE f + 1

\* ohist (line 80): the number of samples in each bin.
Histogram(s, n) ==
    LET r2 == Range2(s)
    IN  [b \in 1..n |->
            Cardinality({k \in 1..Len(s) : BinIndex(s[k], r2[1], r2[2], n) = b})]

BinCentersNoHalf(oedge) ==
    [i \in 1..(Len(oedge) - 1) |->
        Rat(oedge[i + 1].num + oedge[i].num, oedge[i].den)]

\* xdst (line 83): (oedge[1:] + oedge[:-1]) / 2
BinCenters(oedge) ==
    [i \in 1..(Len(oedge) - 1) |->
        Rat(oedge[i + 1].num + oedge[i].num, 2 * oedge[i].den)]

\* wdst (line 86): oedge[1:] - oedge[:-1]
BinWidths(oedge) ==
    [i \in 1..(Len(oedge) - 1) |->
        Rat(oedge[i + 1].num - oedge[i].num, oedge[i].den)]

\* ydst (line 89): ohist / np.sum(ohist)
Pdf(ohist) == [i \in 1..Len(ohist) |-> Rat(ohist[i], SumSeq(ohist))]

CumsumExclusive(y) ==
    [i \in 1..Len(y) |-> Rat(SumSeq([j \in 1..(i - 1) |-> y[j].num]), y[i].den)]

\* cdst (line 92): np.cumsum(ydst); all of ydst has one denominator.
Cumsum(y) ==
    [i \in 1..Len(y) |-> Rat(SumSeq([j \in 1..i |-> y[j].num]), y[i].den)]

\* ------------------------------------------------------------ statistics
\* np.sum(xdst * ydst).round(2) (line 196), in hundredths.
WeightedMeanCents(x, y) ==
    LET num == SumSeq([i \in 1..Len(x) |-> x[i].num * y[i].num])
        den == x[1].den * y[1].den
    IN  RoundHalfEven(100 * num, den)

\* (xmean * 0.8).round(2) and (xmean * 1.2).round(2) (lines 203-204), in
\* hundredths; tenths are the factor times 10.
ScaledCents(cents, tenths) == RoundHalfEven(cents * tenths, 10)

\* data.mean().round(2) (line 200), in hundredths.
RawMeanCents(s) == RoundHalfEven(100 * SumSeq(s), Len(s))

\* ----------------------------------------------------- plot_distribution
HighlightLowerOnly(x, y, lo, hi) ==
    [i \in 1..Len(x) |-> IF RLe(lo, x[i]) THEN y[i] ELSE Rat(0, y[i].den)]

\* hdst (line 129): ydst * ((xdst >= xmean08) & (xdst <= xmean12))
Highlight(x, y, lo, hi) ==
    [i \in 1..Len(x) |->
        IF RLe(lo, x[i]) /\ RLe(x[i], hi) THEN y[i] ELSE Rat(0, y[i].den)]

\* hsum (line 135): (np.sum(hdst) * 100.0).round()
Hsum(hdst) ==
    RoundHalfEven(100 * SumSeq([i \in 1..Len(hdst) |-> hdst[i].num]), hdst[1].den)

\* ------------------------------------------------------------------ main
Stages == <<"read_data", "calculate_bin_size", "histogram", "statistics",
            "savefig", "show">>

StageNo(st) == CHOOSE i \in 1..Len(Stages) : Stages[i] = st

AfterIgnoringErrors(st, err) ==
    IF StageNo(st) = Len(Stages) THEN "done" ELSE Stages[StageNo(st) + 1]

\* Where main is after stage st ended with err: an exception is caught
\* nowhere and ends the run; otherwise the next statement runs.
After(st, err) ==
    IF err # "none" THEN "failed"
    ELSE IF StageNo(st) = Len(Stages) THEN "done"
    ELSE Stages[StageNo(st) + 1]

VARIABLES
    pc,        \* the stage main runs next, or "done" / "failed"
    error,     \* the exception that ended the run, or "none"
    file,      \* data9-1.csv: [exists, tokens]
    data,      \* read_data's result: [ndim, vals]
    binw,      \* calculate_bin_size's binw
    bins,      \* calculate_bin_size's result
    ohist, oedge, xdst, wdst, ydst, cdst,   \* calculate_distribution's result
    xmean, xmean08, xmean12,               \* main's statistics
    hsum,      \* plot_distribution's percentage
    console,   \* the lines printed, by their label
    png,       \* whether PDF.png has been written
    trace      \* the stages entered so far, in order

vars == <<pc, error, file, data, binw, bins, ohist, oedge, xdst, wdst, ydst,
          cdst, xmean, xmean08, xmean12, hsum, console, png, trace>>

distVars == <<ohist, oedge, xdst, wdst, ydst, cdst>>
statVars == <<xmean, xmean08, xmean12>>

RECURSIVE SeqsUpTo(_, _)
SeqsUpTo(S, n) ==
    IF n = 0 THEN {<<>>}
    ELSE LET shorter == SeqsUpTo(S, n - 1)
         IN  shorter \cup {Append(s, x) : s \in {t \in shorter : Len(t) = n - 1}, x \in S}

Files ==
    {[exists |-> FALSE, tokens |-> <<>>]}
    \cup {[exists |-> TRUE, tokens |-> t] : t \in SeqsUpTo(Tokens, MaxLen) \ {<<>>}}

Init ==
    /\ pc = "read_data"
    /\ error = "none"
    /\ file \in Files
    /\ data = [ndim |-> 0, vals |-> <<>>]
    /\ binw = 0
    /\ bins = 0
    /\ ohist = <<>> /\ oedge = <<>> /\ xdst = <<>>
    /\ wdst = <<>> /\ ydst = <<>> /\ cdst = <<>>
    /\ xmean = Rat(0, 100) /\ xmean08 = Rat(0, 100) /\ xmean12 = Rat(0, 100)
    /\ hsum = 0
    /\ console = <<>>
    /\ png = FALSE
    /\ trace = <<>>

\* line 190: data = read_data(file_path)
ReadData ==
    /\ pc = "read_data"
    /\ LET r == GenFromTxt(file)
       IN  /\ data' = [ndim |-> r.ndim, vals |-> r.vals]
           /\ error' = r.err
           /\ pc' = After("read_data", r.err)
    /\ trace' = Append(trace, "read_data")
    /\ UNCHANGED <<file, binw, bins, distVars, statVars, hsum, console, png>>

\* line 77: num_bins = calculate_bin_size(data)
BinSize ==
    /\ pc = "calculate_bin_size"
    /\ \E r \in CalculateBinSize(data) :
           /\ binw' = r.binw
           /\ bins' = r.bins
           /\ error' = r.err
           /\ console' = IF r.err = "none" THEN Append(console, "bin size")
                         ELSE console
           /\ pc' = After("calculate_bin_size", r.err)
    /\ trace' = Append(trace, "calculate_bin_size")
    /\ UNCHANGED <<file, data, distVars, statVars, hsum, png>>

\* lines 80-94: np.histogram and the arrays derived from it.  A bin count
\* below 1 is np.histogram's ValueError; the maximal one cannot be
\* allocated.
Distribution ==
    /\ pc = "histogram"
    /\ trace' = Append(trace, "histogram")
    /\ IF bins < 1 \/ bins = IntMax
       THEN /\ error' = IF bins < 1 THEN "ValueError" ELSE "MemoryError"
            /\ pc' = After("histogram", error')
            /\ UNCHANGED distVars
       ELSE LET s == Floats(data.vals)
                r2 == Range2(s)
                e == Linspace(r2[1], r2[2], bins)
                h == Histogram(s, bins)
            IN  /\ ohist' = h
                /\ oedge' = e
                /\ xdst' = BinCenters(e)
                /\ wdst' = BinWidths(e)
                /\ ydst' = Pdf(h)
                /\ cdst' = Cumsum(Pdf(h))
                /\ error' = "none"
                /\ pc' = After("histogram", "none")
    /\ UNCHANGED <<file, data, binw, bins, statVars, hsum, console, png>>

\* lines 196-204: the weighted mean, the two printed means, the thresholds.
Statistics ==
    /\ pc = "statistics"
    /\ LET m == WeightedMeanCents(xdst, ydst)
       IN  /\ xmean' = Rat(m, 100)
           /\ xmean08' = Rat(ScaledCents(m, 8), 100)
           /\ xmean12' = Rat(ScaledCents(m, 12), 100)
    /\ console' = console \o <<"PDF Mean Annual Salary", "Mean Annual Salary">>
    /\ trace' = Append(trace, "statistics")
    /\ error' = "none"
    /\ pc' = After("statistics", "none")
    /\ UNCHANGED <<file, data, binw, bins, distVars, hsum, png>>

\* lines 113-169: plot_distribution up to plt.savefig.  xdst[1] (line 116)
\* is an IndexError when there is a single bin.
PlotAndSave ==
    /\ pc = "savefig"
    /\ trace' = Append(trace, "savefig")
    /\ IF Len(xdst) < 2
       THEN /\ error' = "IndexError"
            /\ UNCHANGED <<hsum, console, png>>
       ELSE /\ hsum' = Hsum(Highlight(xdst, ydst, xmean08, xmean12))
            /\ console' = Append(console, "Fraction of population")
            /\ png' = TRUE
            /\ error' = "none"
    /\ pc' = After("savefig", error')
    /\ UNCHANGED <<file, data, binw, bins, distVars, statVars>>

\* line 172: plt.show()
Show ==
    /\ pc = "show"
    /\ trace' = Append(trace, "show")
    /\ error' = "none"
    /\ pc' = After("show", "none")
    /\ UNCHANGED <<file, data, binw, bins, distVars, statVars, hsum, console, png>>

Next ==
    \/ ReadData
    \/ BinSize
    \/ Distribution
    \/ Statistics
    \/ PlotAndSave
    \/ Show

Spec == Init /\ [][Next]_vars

\* ------------------------------------------------------------ properties
Samples == Floats(data.vals)
Ran(st) == \E i \in 1..Len(trace) : trace[i] = st
IsPrefix(s, t) == Len(s) <= Len(t) /\ \A i \in 1..Len(s) : s[i] = t[i]
Numeric == file.exists /\ \A i \in 1..Len(file.tokens) : file.tokens[i].kind = "num"

\* Whether x lies in bin b of oedge: [oedge[b], oedge[b+1]), the last bin
\* also holding its right edge.
InBin(x, b) ==
    /\ RLe(oedge[b], Rat(x, 1))
    /\ \/ RLt(Rat(x, 1), oedge[b + 1])
       \/ b = Len(ohist) /\ REq(Rat(x, 1), oedge[b + 1])

\* C1: once calculate_distribution has returned, its counts are one per
\* bin, none negative, they sum to the number of samples, and each count is
\* the number of samples in that bin's interval, so that every sample,
\* the minimum and the maximum included, is in exactly one bin.
C1_CountsSumToLength ==
    ohist # <<>> =>
        /\ Len(ohist) = bins
        /\ \A b \in 1..bins : ohist[b] >= 0
        /\ SumSeq(ohist) = Len(Samples)
        /\ \A b \in 1..bins :
               ohist[b] = Cardinality({k \in 1..Len(Samples) : InBin(Samples[k], b)})
        /\ \A k \in 1..Len(Samples) :
               Cardinality({b \in 1..bins : InBin(Samples[k], b)}) = 1

C1_Witness ==
    /\ ohist # <<>>
    /\ bins >= 3
    /\ ohist[1] >= 1 /\ ohist[bins] >= 2
    /\ \E b \in 1..bins : ohist[b] = 0

ZeroVariance ==
    /\ Numeric
    /\ data.ndim = 1
    /\ \A i \in 1..Len(Samples) : Samples[i] = Samples[1]

\* C2: on data of zero variance calculate_bin_size raises: the run fails in
\* that stage, before any bin count is printed or used.
C2_ZeroVarianceFails ==
    (Ran("calculate_bin_size") /\ ZeroVariance) =>
        /\ pc = "failed"
        /\ trace = <<"read_data", "calculate_bin_size">>
        /\ console = <<>>

\* C3: for numeric data of length >= 2 calculate_bin_size returns a bin
\* count that is positive and equal to ceil((max - min) / w), w being
\* int(2 * iqr / n ** (1/3)).
C3_PositiveBinCount ==
    (Ran("calculate_bin_size") /\ Numeric /\ data.ndim = 1) =>
        /\ IsPrefix(<<"bin size">>, console)
        /\ bins >= 1
        /\ binw = BinWidth(Samples)
        /\ binw * (bins - 1) < Max(Samples) - Min(Samples)
        /\ Max(Samples) - Min(Samples) <= binw * bins

\* C4: the bin edges are bins + 1 strictly increasing values, the first the
\* minimum of the data and the last its maximum.
C4_EdgesIncreasing ==
    oedge # <<>> =>
        /\ Len(oedge) = bins + 1
        /\ \A i \in 1..(Len(oedge) - 1) : RLt(oedge[i], oedge[i + 1])
        /\ REq(oedge[1], Rat(Min(Samples), 1))
        /\ REq(oedge[Len(oedge)], Rat(Max(Samples), 1))

C4_Witness ==
    /\ oedge # <<>>
    /\ bins >= 3
    /\ \E i \in 1..Len(oedge) : oedge[i].num % oedge[i].den # 0

\* C5: each probability is its bin's count over the total count; the
\* cumulative sequence is the prefix sums of the probabilities, never
\* decreases, never exceeds 1 and ends at 1.
C5_CumulativeEndsAtOne ==
    cdst # <<>> =>
        /\ Len(ydst) = bins /\ Len(cdst) = bins
        /\ \A i \in 1..bins : REq(ydst[i], Rat(ohist[i], Len(Samples)))
        /\ REq(cdst[1], ydst[1])
        /\ \A i \in 2..bins :
               /\ REq(RSub(cdst[i], cdst[i - 1]), ydst[i])
               /\ RLe(cdst[i - 1], cdst[i])
        /\ \A i \in 1..bins : RLe(cdst[i], Rat(1, 1))
        /\ REq(cdst[bins], Rat(1, 1))

C5_Witness ==
    /\ cdst # <<>>
    /\ bins >= 3
    /\ \E i \in 2..(bins - 1) :
           /\ RLt(Rat(0, 1), cdst[i - 1])
           /\ RLt(cdst[i - 1], cdst[i])
           /\ RLt(cdst[i], Rat(1, 1))

\* The weighted mean before main rounds it.
ExactMean ==
    Rat(SumSeq([i \in 1..Len(xdst) |-> xdst[i].num * ydst[i].num]),
        xdst[1].den * ydst[1].den)

\* C6: the weighted mean of the bin centers, as a sum and as main rounds
\* it, is at least the minimum and at most the maximum of the data.
C6_MeanWithinRange ==
    Ran("statistics") =>
        /\ RLe(Rat(Min(Samples), 1), ExactMean)
        /\ RLe(ExactMean, Rat(Max(Samples), 1))
        /\ RLe(Rat(Min(Samples), 1), xmean)
        /\ RLe(xmean, Rat(Max(Samples), 1))

C6_Witness ==
    /\ Ran("statistics")
    /\ bins >= 2
    /\ ~REq(xmean, ExactMean)
    /\ RLt(xmean, Rat(0, 1))

BadFile == ~file.exists \/ \E i \in 1..Len(file.tokens) : file.tokens[i].kind = "text"

\* C7: on a file that is missing or holds a non-numeric token read_data
\* raises, so the run fails in that stage and the data never holds a
\* value standing in for a token.
C7_BadFileFailsInLoad ==
    (Ran("read_data") /\ BadFile) =>
        /\ pc = "failed"
        /\ trace = <<"read_data">>
        /\ ~HasNaN(data.vals)

\* 100 times the probability of the bins whose center is in [lo, hi],
\* rounded.
PercentBetween(lo, hi) ==
    LET sel == {i \in 1..Len(xdst) : RLe(lo, xdst[i]) /\ RLe(xdst[i], hi)}
    IN  RoundHalfEven(
            100 * SumSeq([i \in 1..Len(xdst) |-> IF i \in sel THEN ohist[i] ELSE 0]),
            Len(Samples))

\* C8 as claimed: the percentage is that of the bins whose center is
\* between mean * 0.8 and mean * 1.2, and is between 0 and 100.
C8_PercentOfExactBand ==
    png =>
        /\ hsum = PercentBetween(Rat(8 * xmean.num, 10 * xmean.den),
                                 Rat(12 * xmean.num, 10 * xmean.den))
        /\ 0 <= hsum /\ hsum <= 100

\* C8 as amended: the percentage is that of the bins whose center is
\* between the two thresholds main passes, which are mean * 0.8 and
\* mean * 1.2 each rounded to 2 decimal places (of the mean rounded to 2
\* decimal places); it is between 0 and 100.
C8_PercentOfRoundedBand ==
    png =>
        /\ xmean.den = 100
        /\ xmean08 = Rat(RoundHalfEven(8 * xmean.num, 10), 100)
        /\ xmean12 = Rat(RoundHalfEven(12 * xmean.num, 10), 100)
        /\ hsum = PercentBetween(xmean08, xmean12)
        /\ 0 <= hsum /\ hsum <= 100

C8_Witness ==
    /\ png
    /\ 0 < hsum /\ hsum < 100
    /\ \E i \in 1..Len(xdst) : ohist[i] > 0 /\ RLt(xmean12, xdst[i])
    /\ \E i \in 1..Len(xdst) : ohist[i] > 0 /\ RLt(xdst[i], xmean08)

\* C9: after a load, a run whose truncated bin width is not zero does not
\* fail, and once it has ended PDF.png is written.
C9_NonZeroWidthCompletes ==
    (Numeric /\ binw # 0) =>
        /\ pc # "failed"
        /\ pc = "done" => png

ConsoleOrder == <<"bin size", "PDF Mean Annual Salary", "Mean Annual Salary",
                  "Fraction of population">>

\* C10: the stages entered are a prefix of load, bin size, histogram,
\* statistics, save, show, so each ran at most once and in that order; a
\* stage that raised is the last one and nothing runs after it; PDF.png is
\* written only after the first five stages ran without an error; the
\* console lines are a prefix of their fixed order.
C10_LinearPipeline ==
    /\ IsPrefix(trace, Stages)
    /\ error # "none" => pc = "failed"
    /\ pc = "failed" => error # "none" /\ ~ENABLED Next
    /\ pc = "done" => trace = Stages /\ ~ENABLED Next
    /\ pc \notin {"failed", "done"} => pc = Stages[Len(trace) + 1]
    /\ png => IsPrefix(SubSeq(Stages, 1, 5), trace) /\ error = "none"
    /\ IsPrefix(console, ConsoleOrder)
    /\ png => console = ConsoleOrder

C10_Witness ==
    /\ pc = "failed"
    /\ trace = <<"read_data", "calculate_bin_size", "histogram">>
    /\ console = <<"bin size">>
    /\ ~png

====
